---- MODULE Spec2Model ----
(***************************************************************************)
(* Model of the bencode decoder of src/src/lib.rs (parse_value,            *)
(* parse_string, parse_dict, parse_list, parse_int, vec_to_int) and of a   *)
(* caller that decodes concatenated top-level values from one cursor       *)
(* (src/src/main.rs, run_app).                                             *)
(*                                                                         *)
(* A byte source is a sequence of items; an item is a byte 0..255 or the   *)
(* I/O failure IOERR.  Every `iter.peekable()` of the source is modelled   *)
(* as one more one-item lookahead buffer stacked on the cursor; a buffer   *)
(* that goes out of scope takes the item it holds with it.                 *)
(***************************************************************************)
EXTENDS Integers, Sequences, FiniteSets, TLC

\* ------------------------------------------------------------------ bytes
\* io::Result<u8> read from the source: Ok(byte) is the byte, Err(_) is IOERR.
IOERR == 0 - 1
\* Option::None returned by Iterator::next / Peekable::peek.
NONE == 0 - 2

Bytes == 0 .. 255

B_0 == 48
B_9 == 57
B_MINUS == 45
B_COLON == 58
B_d == 100
B_e == 101
B_i == 105
B_l == 108

IsDigit(b) == b >= B_0 /\ b <= B_9

\* ------------------------------------------------------------------ cursor
\* The cursor a parser receives: the byte source `src` and the stack `bufs` of
\* the Peekable adapters wrapped around it so far (innermost first).  A buffer is
\* <<>> (nothing peeked) or <<x>> (peeked x, where x may be NONE).  `depth` is
\* a measure, read by no parser: the largest number of adapters stacked so far,
\* which is the largest number of parse_value / parse_list / parse_dict calls
\* that were active at once, each of them making one adapter on entry.
Cursor(s) == [src |-> s, bufs |-> <<>>, depth |-> 0]

\* iter.peekable()
Peekable(c) ==
  [c EXCEPT !.bufs = Append(@, <<>>),
            !.depth = IF Len(c.bufs) + 1 > @ THEN Len(c.bufs) + 1 ELSE @]

\* A lookahead that hands the item it still holds back to what it wraps.
DropKeepsItem(c) ==
  LET k == Len(c.bufs)
      held == c.bufs[k]
      rest == [c EXCEPT !.bufs = SubSeq(@, 1, k - 1)]
  IN  IF held = <<>> \/ held[1] = NONE THEN rest
      ELSE IF k = 1 THEN [rest EXCEPT !.src = held \o @]
      ELSE [rest EXCEPT !.bufs[k - 1] = held]

\* The innermost Peekable goes out of scope at the end of the function that made
\* it: the item it holds, if any, was already taken from what it wraps and is lost.
Drop(c) == [c EXCEPT !.bufs = SubSeq(@, 1, Len(@) - 1)]

\* next() of the adapter at level k (level 0 is the byte source itself).
RECURSIVE NextAt(_, _)
NextAt(c, k) ==
  IF k = 0
  THEN IF c.src = <<>> THEN [item |-> NONE, c |-> c]
       ELSE [item |-> Head(c.src), c |-> [c EXCEPT !.src = Tail(@)]]
  ELSE IF c.bufs[k] # <<>>
       THEN [item |-> c.bufs[k][1], c |-> [c EXCEPT !.bufs[k] = <<>>]]
       ELSE NextAt(c, k - 1)

\* iter.next() on the cursor as the callee sees it.
NextItem(c) == NextAt(c, Len(c.bufs))

\* peek() with an empty buffer: the item r taken from below is kept in buffer k.
Peeked(k, r) == [item |-> r.item, c |-> [r.c EXCEPT !.bufs[k] = <<r.item>>]]

PeekAt(c, k) ==
  IF c.bufs[k] # <<>> THEN [item |-> c.bufs[k][1], c |-> c]
  ELSE Peeked(k, NextAt(c, k - 1))

\* iter.peek() on the innermost Peekable.
Peek(c) == PeekAt(c, Len(c.bufs))

\* ------------------------------------------------------------------ results
\* io::Result<T>: Ok(v) or Err(e), together with the cursor left behind.
Ok(v, c) == [tag |-> "ok", val |-> v, c |-> c]
Err(kind, b, c) == [tag |-> "err", val |-> [kind |-> kind, byte |-> b], c |-> c]

\* ------------------------------------------------------------------ i64
\* An i64 is kept as sign and magnitude; the magnitude is three limbs in base
\* 10^7, most significant first, so that no limb operation leaves 32 bits.
Base == 10 * 1000 * 1000

Mag(hi, mid, lo) == <<hi, mid, lo>>
MagZero == Mag(0, 0, 0)
MagOfSmall(n) == Mag(0, n \div Base, n % Base)

MagLeq(a, b) ==
  \/ a[1] < b[1]
  \/ a[1] = b[1] /\ a[2] < b[2]
  \/ a[1] = b[1] /\ a[2] = b[2] /\ a[3] <= b[3]

MagMul10(m) ==
  LET lo == m[3] * 10
      mid == m[2] * 10 + (lo \div Base)
      hi == m[1] * 10 + (mid \div Base)
  IN  Mag(hi, mid % Base, lo % Base)

MagAdd(m, d) ==
  LET lo == m[3] + d
      mid == m[2] + (lo \div Base)
      hi == m[1] + (mid \div Base)
  IN  Mag(hi, mid % Base, lo % Base)

\* |m - d| for a magnitude m and a small d.
MagDiff(m, d) ==
  IF m[1] = 0 /\ m[2] = 0 /\ m[3] < d THEN Mag(0, 0, d - m[3])
  ELSE IF m[3] >= d THEN Mag(m[1], m[2], m[3] - d)
  ELSE IF m[2] > 0 THEN Mag(m[1], m[2] - 1, m[3] + Base - d)
  ELSE Mag(m[1] - 1, Base - 1, m[3] + Base - d)

\* i64::MAX = 9223372036854775807 and |i64::MIN| = 9223372036854775808.
I64MaxMag == Mag(92233, 7203685, 4775807)
I64MinMag == Mag(92233, 7203685, 4775808)

I64(neg, m) == [neg |-> neg /\ m # MagZero, mag |-> m]
I64Zero == I64(FALSE, MagZero)
InI64(neg, m) == IF neg THEN MagLeq(m, I64MinMag) ELSE MagLeq(m, I64MaxMag)

\* Option<i64>: <<>> is None, <<v>> is Some(v).
Checked(neg, m) == IF InI64(neg, m) THEN <<I64(neg, m)>> ELSE <<>>

\* i64::checked_mul(10)
checked_mul10(v) == Checked(v.neg, MagMul10(v.mag))

\* i64::checked_add(d), 0 <= d <= 9
checked_add(v, d) ==
  IF v.neg
  THEN Checked(~(v.mag[1] = 0 /\ v.mag[2] = 0 /\ v.mag[3] < d), MagDiff(v.mag, d))
  ELSE Checked(FALSE, MagAdd(v.mag, d))

\* A subtraction whose result must also fit once negated.
checked_sub_symmetric(v, d) ==
  IF v.neg \/ v.mag = MagZero
  THEN IF MagLeq(MagAdd(v.mag, d), I64MaxMag) THEN Checked(TRUE, MagAdd(v.mag, d)) ELSE <<>>
  ELSE Checked(v.mag[1] = 0 /\ v.mag[2] = 0 /\ v.mag[3] < d, MagDiff(v.mag, d))

\* i64::checked_sub(d), 0 <= d <= 9
checked_sub(v, d) ==
  IF v.neg \/ v.mag = MagZero
  THEN Checked(TRUE, MagAdd(v.mag, d))
  ELSE Checked(v.mag[1] = 0 /\ v.mag[2] = 0 /\ v.mag[3] < d, MagDiff(v.mag, d))

\* ------------------------------------------------------------------ vec_to_int
\* ret.checked_add(digit) / ret.checked_sub(digit) on the product m.
vec_to_int_add(m, val, is_negative) ==
  IF m = <<>> THEN <<>>
  ELSE IF is_negative THEN checked_sub(m[1], val - B_0)
  ELSE checked_add(m[1], val - B_0)

\* One iteration: ret.checked_mul(10), then the digit added or subtracted.
vec_to_int_step(ret, val, is_negative) ==
  vec_to_int_add(checked_mul10(ret), val, is_negative)

RECURSIVE vec_to_int_loop(_, _, _, _)
vec_to_int_next(vec, i, s, is_negative) ==
  IF s = <<>> THEN <<>> ELSE vec_to_int_loop(vec, i + 1, s[1], is_negative)

vec_to_int_loop(vec, i, ret, is_negative) ==
  IF i > Len(vec) THEN <<ret>>
  ELSE vec_to_int_next(vec, i, vec_to_int_step(ret, vec[i], is_negative), is_negative)

\* fn vec_to_int(vec, is_negative) -> io::Result<i64>: <<>> is the overflow error.
vec_to_int(vec, is_negative) == vec_to_int_loop(vec, 1, I64Zero, is_negative)

\* ------------------------------------------------------------------ BencodeValue
\* enum BencodeValue: a variant is the pair of its name and its payload.
Integer(v) == <<"Integer", v>>
String(v) == <<"String", v>>
List(v) == <<"List", v>>
Dictionary(v) == <<"Dictionary", v>>
EndOfFile == <<"EndOfFile", <<>>>>
Variant(x) == x[1]
Payload(x) == x[2]

\* ------------------------------------------------------------------ parse_string
\* First loop: the length prefix, up to and including the colon.
RECURSIVE parse_string_prefix(_, _)
parse_string_prefix_byte(r, ret) ==
  IF r.item = NONE THEN Err("UnterminatedLengthPrefix", NONE, r.c)
  ELSE IF r.item = IOERR THEN Err("SourceReadError", NONE, r.c)
  ELSE IF IsDigit(r.item) THEN parse_string_prefix(r.c, Append(ret, r.item))
  ELSE IF r.item = B_COLON THEN Ok(ret, r.c)
  ELSE Err("InvalidLengthPrefix", r.item, r.c)

parse_string_prefix(c, ret) == parse_string_prefix_byte(NextItem(c), ret)

\* `for _ in 0..length`: an iteration runs while i < length.
body_more_off_by_one(i, length) == MagLeq(MagOfSmall(i), length.mag)

body_more(i, length) == ~MagLeq(length.mag, MagOfSmall(i))

\* Second loop: exactly `length` bytes, verbatim.
RECURSIVE parse_string_body(_, _, _, _)
parse_string_body_byte(r, length, i, ret) ==
  IF r.item = NONE THEN Err("UnterminatedString", NONE, r.c)
  ELSE IF r.item = IOERR THEN Err("SourceReadError", NONE, r.c)
  ELSE parse_string_body(r.c, length, i + 1, Append(ret, r.item))

parse_string_body(c, length, i, ret) ==
  IF ~body_more(i, length) THEN Ok(ret, c)
  ELSE parse_string_body_byte(NextItem(c), length, i, ret)

\* let length = vec_to_int(&ret, false)?;
parse_string_length(c, length) ==
  IF length = <<>> THEN Err("IntegerOverflow", NONE, c)
  ELSE parse_string_body(c, length[1], 0, <<>>)

\* A length prefix that must hold a digit.
parse_string_after_prefix_needs_digit(p) ==
  IF p.tag = "err" THEN p
  ELSE IF p.val = <<>> THEN Err("InvalidLengthPrefix", B_COLON, p.c)
  ELSE parse_string_length(p.c, vec_to_int(p.val, FALSE))

parse_string_after_prefix(p) ==
  IF p.tag = "err" THEN p ELSE parse_string_length(p.c, vec_to_int(p.val, FALSE))

\* fn parse_string(iter) -> io::Result<Vec<u8>>.  Vec::with_capacity(length) is
\* not modelled: the streams of this model keep every length prefix far below
\* what an allocation can serve.
parse_string(c) == parse_string_after_prefix(parse_string_prefix(c, <<>>))

\* ------------------------------------------------------------------ parse_int
max_digits_18 == 9 + 9

max_digits == 19

\* curr_byte = iter.next().ok_or(..)??
parse_int_item(r) ==
  IF r.item = NONE THEN Err("UnterminatedInteger", NONE, r.c)
  ELSE IF r.item = IOERR THEN Err("SourceReadError", NONE, r.c)
  ELSE Ok(r.item, r.c)

parse_int_next(c) == parse_int_item(NextItem(c))

RECURSIVE parse_int_loop(_, _, _)
parse_int_loop_next(n, curr_byte, int_chars) ==
  IF n.tag = "err" THEN n
  ELSE parse_int_loop(n.c, n.val, Append(int_chars, curr_byte))

parse_int_loop(c, curr_byte, int_chars) ==
  IF Len(int_chars) >= max_digits THEN Err("IntegerTooLarge", NONE, c)
  ELSE IF curr_byte = B_e THEN Ok(int_chars, c)
  ELSE IF ~IsDigit(curr_byte) THEN Err("InvalidDigit", curr_byte, c)
  ELSE parse_int_loop_next(parse_int_next(c), curr_byte, int_chars)

\* return Ok(vec_to_int(&int_chars, is_negative)?);
parse_int_value(c, v) ==
  IF v = <<>> THEN Err("IntegerOverflow", NONE, c) ELSE Ok(v[1], c)

parse_int_digits(d, is_negative) ==
  IF d.tag = "err" THEN d ELSE parse_int_value(d.c, vec_to_int(d.val, is_negative))

\* The byte after `i-`.
parse_int_signed(second) ==
  IF second.tag = "err" THEN second
  ELSE parse_int_digits(parse_int_loop(second.c, second.val, <<>>), TRUE)

\* The byte after `i`: the sign or the first digit candidate.
parse_int_first(first) ==
  IF first.tag = "err" THEN first
  ELSE IF first.val = B_MINUS THEN parse_int_signed(parse_int_next(first.c))
  ELSE parse_int_digits(parse_int_loop(first.c, first.val, <<>>), FALSE)

\* fn parse_int(iter) -> io::Result<i64>; the first next() drops the `i`.
parse_int(c) == parse_int_first(parse_int_next(NextItem(c).c))

\* ------------------------------------------------------------------ dispatch
\* match byte { 0x30...0x39 => .., 0x64 => .., 0x69 => .., 0x6c => .., val => .. }
lead_digits_1_to_9(byte) ==
  IF byte > B_0 /\ byte <= B_9 THEN "String"
  ELSE IF byte = B_d THEN "Dictionary"
  ELSE IF byte = B_i THEN "Integer"
  ELSE IF byte = B_l THEN "List"
  ELSE "Unexpected"

lead(byte) ==
  IF IsDigit(byte) THEN "String"
  ELSE IF byte = B_d THEN "Dictionary"
  ELSE IF byte = B_i THEN "Integer"
  ELSE IF byte = B_l THEN "List"
  ELSE "Unexpected"

\* ret.push(val)
push_front(ret, val) == <<val>> \o ret

push(ret, val) == Append(ret, val)

\* ret.insert(key, value) on a HashMap: an equal key is overwritten.
insert_keep_first(ret, key, value) ==
  [k \in DOMAIN ret \cup {key} |-> IF k \in DOMAIN ret THEN ret[k] ELSE value]

insert(ret, key, value) ==
  [k \in DOMAIN ret \cup {key} |-> IF k = key THEN value ELSE ret[k]]

\* HashMap::new()
EmptyMap == <<>>

\* The look-ahead after a list element / dictionary entry:
\* let test = iter.peek().ok_or(..)?;
\* match *test { Ok(val) if val == 0x65 => break, Ok(_) => {}, Err(_) => return Err(..) }
after_entry_eof_ends(item) ==
  IF item = NONE THEN "break"
  ELSE IF item = IOERR THEN "ioerr"
  ELSE IF item = B_e THEN "break"
  ELSE "continue"

\* A look-ahead that takes an I/O failure for the end of the container.
after_entry_ioerr_ends(item) ==
  IF item = NONE THEN "eof"
  ELSE IF item = IOERR THEN "break"
  ELSE IF item = B_e THEN "break"
  ELSE "continue"

after_entry(item) ==
  IF item = NONE THEN "eof"
  ELSE IF item = IOERR THEN "ioerr"
  ELSE IF item = B_e THEN "break"
  ELSE "continue"

\* The result of a function that made a Peekable: the adapter is dropped.
Return(r) == [r EXCEPT !.c = Drop(@)]

RECURSIVE parse_value(_), parse_list_loop(_, _), parse_dict_loop(_, _)

\* ------------------------------------------------------------------ parse_list
\* A list that takes the end of the source for its own end.
parse_list_test_eof_returns(test, what, ret) ==
  IF what = "eof" THEN Ok(ret, test.c)
  ELSE IF what = "ioerr" THEN Err("SourceReadError", NONE, test.c)
  ELSE IF what = "break" THEN Ok(ret, test.c)
  ELSE parse_list_loop(test.c, ret)

parse_list_test(test, what, ret) ==
  IF what = "eof" THEN Err("UnterminatedList", NONE, test.c)
  ELSE IF what = "ioerr" THEN Err("SourceReadError", NONE, test.c)
  ELSE IF what = "break" THEN Ok(ret, test.c)
  ELSE parse_list_loop(test.c, ret)

parse_list_peek(test, ret) == parse_list_test(test, after_entry(test.item), ret)

\* A list that leaves a failed element out and carries on.
parse_list_push_skip(val, ret) ==
  IF val.tag = "err" THEN parse_list_peek(Peek(val.c), ret)
  ELSE parse_list_peek(Peek(val.c), push(ret, val.val))

parse_list_push(val, ret) ==
  IF val.tag = "err" THEN val ELSE parse_list_peek(Peek(val.c), push(ret, val.val))

\* loop { let val = parse_value(&mut iter)?; ret.push(val); .. }
parse_list_loop(c, ret) == parse_list_push(parse_value(c), ret)

\* if let Some(Ok(0x65)) = iter.peek() { return Ok(Vec::new()) }
parse_list_first(first) ==
  IF first.item = B_e THEN Ok(<<>>, first.c) ELSE parse_list_loop(first.c, <<>>)

\* fn parse_list(iter) -> io::Result<Vec<BencodeValue>>
parse_list(c) == Return(parse_list_first(Peek(NextItem(Peekable(c)).c)))

\* ------------------------------------------------------------------ parse_dict
parse_dict_test(test, what, ret) ==
  IF what = "eof" THEN Err("UnterminatedDictionary", NONE, test.c)
  ELSE IF what = "ioerr" THEN Err("SourceReadError", NONE, test.c)
  ELSE IF what = "break" THEN Ok(ret, test.c)
  ELSE parse_dict_loop(test.c, ret)

parse_dict_peek(test, ret) == parse_dict_test(test, after_entry(test.item), ret)

parse_dict_insert(key, value, ret) ==
  IF value.tag = "err" THEN value
  ELSE parse_dict_peek(Peek(value.c), insert(ret, key, value.val))

parse_dict_value(key, ret) ==
  IF key.tag = "err" THEN key
  ELSE parse_dict_insert(key.val, parse_value(key.c), ret)

\* A key read by the dispatcher: any value is taken, a non-string as the empty key.
key_of_value(r) ==
  IF r.tag = "err" THEN r
  ELSE Ok(IF Variant(r.val) = "String" THEN Payload(r.val) ELSE <<>>, r.c)

parse_dict_loop_any_key(c, ret) == parse_dict_value(key_of_value(parse_value(c)), ret)

\* loop { let key = parse_string(&mut iter)?; let value = parse_value(&mut iter)?; .. }
parse_dict_loop(c, ret) == parse_dict_value(parse_string(c), ret)

\* fn parse_dict(iter) -> io::Result<HashMap<Vec<u8>, BencodeValue>>
parse_dict(c) == Return(parse_dict_loop(NextItem(Peekable(c)).c, EmptyMap))

\* ------------------------------------------------------------------ parse_value
\* return Ok(BencodeValue::<variant>(<delegate>(&mut iter)?))
wrap(to, r) ==
  IF r.tag = "err" THEN r
  ELSE IF to = "String" THEN Ok(String(r.val), r.c)
  ELSE IF to = "Dictionary" THEN Ok(Dictionary(r.val), r.c)
  ELSE IF to = "Integer" THEN Ok(Integer(r.val), r.c)
  ELSE Ok(List(r.val), r.c)

delegate(c, byte, to) ==
  IF to = "String" THEN wrap(to, parse_string(c))
  ELSE IF to = "Dictionary" THEN wrap(to, parse_dict(c))
  ELSE IF to = "Integer" THEN wrap(to, parse_int(c))
  ELSE IF to = "List" THEN wrap(to, parse_list(c))
  ELSE Err("InvalidLeadByte", byte, c)

\* match iter.peek() { Some(Ok(val)) => .., Some(Err(_)) => return Err(..), _ => break }
parse_value_peek(p) ==
  IF p.item = NONE THEN Ok(EndOfFile, p.c)
  ELSE IF p.item = IOERR THEN Err("SourceReadError", NONE, p.c)
  ELSE delegate(p.c, p.item, lead(p.item))

\* pub fn parse_value(iter) -> io::Result<BencodeValue>
parse_value(c) == Return(parse_value_peek(Peek(Peekable(c))))

\* ------------------------------------------------------------------ test streams
\* The streams the decoder is run on are built from terms, the wire grammar of
\* the format written out: an integer term is its sign, a number of leading `0`
\* digits and its magnitude (NoDigits for no digit at all), a string term is the
\* number of leading `0` digits of its length prefix and its body, a list term is
\* its elements, a dictionary term is its (key, value) pairs.
MaxLen == 3
MaxZeros == 2
MaxSmallInt == 11
MaxStrLen == 2
MaxValues == 2
MaxElems == 2
MaxPairs == 2

NoDigits == <<>>
IntTerm(neg, k, m) == <<"int", neg, k, m>>
StrTerm(k, body) == <<"str", k, body>>
ListTerm(elems) == <<"list", elems>>
DictTerm(pairs) == <<"dict", pairs>>

Zeros(k) == [j \in 1 .. k |-> B_0]

\* Canonical decimal rendering of a natural number / of a magnitude.
RECURSIVE Digits(_)
Digits(n) == IF n < 10 THEN <<B_0 + n>> ELSE Digits(n \div 10) \o <<B_0 + (n % 10)>>
Pad7(n) == Zeros(7 - Len(Digits(n))) \o Digits(n)
Render(m) ==
  IF m[1] > 0 THEN Digits(m[1]) \o Pad7(m[2]) \o Pad7(m[3])
  ELSE IF m[2] > 0 THEN Digits(m[2]) \o Pad7(m[3])
  ELSE Digits(m[3])
IntDigits(t) == Zeros(t[3]) \o (IF t[4] = NoDigits THEN <<>> ELSE Render(t[4]))

RECURSIVE Enc(_), EncAll(_), EncPairs(_)
Enc(t) ==
  IF t[1] = "int"
  THEN <<B_i>> \o (IF t[2] THEN <<B_MINUS>> ELSE <<>>) \o IntDigits(t) \o <<B_e>>
  ELSE IF t[1] = "str" THEN Zeros(t[2]) \o Digits(Len(t[3])) \o <<B_COLON>> \o t[3]
  ELSE IF t[1] = "list" THEN <<B_l>> \o EncAll(t[2]) \o <<B_e>>
  ELSE <<B_d>> \o EncPairs(t[2]) \o <<B_e>>
EncAll(ts) == IF ts = <<>> THEN <<>> ELSE Enc(Head(ts)) \o EncAll(Tail(ts))
EncPairs(ps) ==
  IF ps = <<>> THEN <<>>
  ELSE Enc(Head(ps)[1]) \o Enc(Head(ps)[2]) \o EncPairs(Tail(ps))

\* All sequences over S of length at most n.
RECURSIVE SeqsUpTo(_, _)
SeqsUpTo(S, n) ==
  IF n = 0 THEN {<<>>}
  ELSE LET T == SeqsUpTo(S, n - 1)
       IN  T \cup {Append(t, a) : t \in {u \in T : Len(u) = n - 1}, a \in S}

\* Items of the exhaustively enumerated short streams: digits, the grammar's
\* bytes, a byte of no production (`x`) and the I/O failure.
Alphabet == {B_0, B_0 + 1, B_MINUS, B_COLON, B_d, B_e, B_i, B_l, 120, IOERR}
ShortStreams == SeqsUpTo(Alphabet, MaxLen)
\* One byte longer, over the bytes of the grammar alone.
GrammarBytes == {B_0 + 1, B_COLON, B_d, B_e, B_i, B_l}
GrammarStreams == SeqsUpTo(GrammarBytes, MaxLen + 1)
LeadStreams == {<<b>> \o t : b \in Bytes, t \in {<<>>, <<B_e>>, <<B_0 + 1, B_COLON>>}}

\* Magnitudes: the small ones, powers of ten up to 10^19 and the neighbours of
\* 2^63.
TestMags ==
  {MagOfSmall(n) : n \in 0 .. MaxSmallInt}
  \cup {Mag(0, 0, 123), Mag(0, 0, Base - 1), Mag(0, 1, 0), Mag(0, Base - 1, Base - 1),
        Mag(1, 0, 0), Mag(100, 0, 0), Mag(999, Base - 1, Base - 1), Mag(1000, 0, 0),
        Mag(9999, Base - 1, Base - 1), Mag(10000, 0, 0), Mag(92233, 7203685, 4775806),
        I64MaxMag, I64MinMag, Mag(92233, 7203685, 4775809),
        Mag(99999, Base - 1, Base - 1), Mag(100000, 0, 0)}
Pads == (0 .. MaxZeros) \cup {17, 18, 19}
IntTerms ==
  {IntTerm(neg, k, m) : neg \in BOOLEAN, k \in Pads, m \in TestMags \cup {NoDigits}}

\* String bodies: every short body over a few byte values (the grammar's own
\* bytes among them) and longer ones with a two-digit length.
BodyBytes == {0, B_0 + 1, B_COLON, B_e, 255}
LongBody(n) == [j \in 1 .. n |-> (j * 53) % 256]
Bodies == SeqsUpTo(BodyBytes, MaxStrLen) \cup {LongBody(10), LongBody(12)}
StrTerms == {StrTerm(k, b) : k \in 0 .. MaxZeros, b \in Bodies}
Tails == {<<>>, <<B_e>>, <<B_0 + 1, B_COLON, B_e>>}

I_1 == IntTerm(FALSE, 0, MagOfSmall(1))
I_2 == IntTerm(FALSE, 0, MagOfSmall(2))
I_m10 == IntTerm(TRUE, 0, MagOfSmall(10))
S_empty == StrTerm(0, <<>>)
S_a == StrTerm(0, <<97>>)
S_e == StrTerm(0, <<B_e>>)
S_le == StrTerm(0, <<B_l, B_e>>)
L_empty == ListTerm(<<>>)
L_nested == ListTerm(<<L_empty, I_1>>)
D_empty == DictTerm(<<>>)
D_a1 == DictTerm(<<<<S_a, I_1>>>>)
D_nested == DictTerm(<<<<S_empty, L_empty>>, <<S_a, D_a1>>>>)

TopTerms == {I_1, I_m10, S_empty, S_e, L_empty, L_nested, D_a1, D_nested}
ElemTerms == {I_1, I_2, S_e, S_le, L_empty, L_nested, D_a1, D_empty}
KeyTerms == {S_a, S_empty, StrTerm(1, <<>>)}
ValTerms == {I_1, I_2, L_nested, D_empty}
ListTerms == {ListTerm(es) : es \in SeqsUpTo(ElemTerms, MaxElems)}
DictTerms == {DictTerm(ps) : ps \in SeqsUpTo(KeyTerms \X ValTerms, MaxPairs)}

\* Dictionaries with a value where a key belongs: well-formed entries, then an
\* entry whose key is an integer, a list or a dictionary.
BadKeys == {I_1, L_empty, D_a1}
BadKeyPres == {<<>>, <<<<S_a, I_1>>>>, <<<<S_empty, L_nested>>, <<S_a, I_2>>>>}
BadKeyStream(pre, k) == <<B_d>> \o EncPairs(pre) \o Enc(k) \o Enc(I_1) \o <<B_e>>
BadKeyStreams == {BadKeyStream(pre, k) : pre \in BadKeyPres, k \in BadKeys}

\* Malformed elements, each failing on its own whatever follows it: a byte of no
\* production, a letter among an integer's digits, an integer of 20 digits, a
\* length prefix ended by a letter and a length prefix beyond 64 bits; and the
\* places of a container an element can stand in, down to depth three.
Nines(n) == [j \in 1 .. n |-> B_9]
BadElems ==
  {<<120>>, <<B_i, B_0 + 1, 120, B_e>>, <<B_i>> \o Nines(20) \o <<B_e>>,
   <<B_0 + 1, 120>>, Nines(20) \o <<B_COLON>>}
Places ==
  {"only", "last", "first", "value", "second value", "list in list",
   "list in dictionary", "dictionary in list", "depth three"}
InPlace(place, b) ==
  IF place = "only" THEN <<B_l>> \o b \o <<B_e>>
  ELSE IF place = "last" THEN <<B_l>> \o Enc(I_1) \o Enc(L_nested) \o b \o <<B_e>>
  ELSE IF place = "first" THEN <<B_l>> \o b \o Enc(I_1) \o <<B_e>>
  ELSE IF place = "value" THEN <<B_d>> \o Enc(S_a) \o b \o <<B_e>>
  ELSE IF place = "second value"
    THEN <<B_d>> \o Enc(S_a) \o Enc(I_1) \o Enc(S_empty) \o b \o <<B_e>>
  ELSE IF place = "list in list" THEN <<B_l, B_l>> \o Enc(S_e) \o b \o <<B_e, B_e>>
  ELSE IF place = "list in dictionary"
    THEN <<B_d>> \o Enc(S_a) \o <<B_l>> \o b \o <<B_e, B_e>>
  ELSE IF place = "dictionary in list"
    THEN <<B_l, B_d>> \o Enc(S_a) \o b \o <<B_e, B_e>>
  ELSE <<B_l, B_d>> \o Enc(S_a) \o <<B_l>> \o Enc(I_2) \o b \o <<B_e, B_e, B_e>>
BadElemStreams == {InPlace(place, b) : place \in Places, b \in BadElems}

\* Well-formed values whose source fails at one position: the item there is the
\* I/O failure, and everything before it is as in the well-formed stream.
IoBases ==
  {Enc(D_nested), Enc(ListTerm(<<L_nested, S_le>>)), Enc(ListTerm(<<I_1, I_2>>)),
   Enc(I_m10), Enc(StrTerm(1, <<B_e, 255>>))}
IoAt(w, p) == [w EXCEPT ![p] = IOERR]
IoStreams == UNION {{IoAt(w, p) : p \in 1 .. Len(w)} : w \in IoBases}

\* Integers with a byte that is neither a digit nor `e` after `i` or `i-` and k
\* digits, k around zero and around the digit cap.
DigitRuns == (0 .. MaxZeros) \cup {17, 18, 19, 20}
SomeDigits(k) == [j \in 1 .. k |-> B_0 + (j % 10)]
NonDigits == {0, B_MINUS, B_COLON, B_d, B_i, B_l, 120, 255}
InvalidDigitStream(sign, k, b) ==
  <<B_i>> \o sign \o SomeDigits(k) \o <<b, B_0 + 3, B_e>>
InvalidDigitStreams ==
  {InvalidDigitStream(sign, k, b) :
     sign \in {<<>>, <<B_MINUS>>}, k \in DigitRuns, b \in NonDigits}

\* Sources that end inside containers: a sequence of openers, each a list or a
\* dictionary begun and left open (`l`, `li1e`, `d0:`, `d1:a`); after an opener
\* other than `li1e` an element or a value is due.
MaxOpen == 3
Openers == {"l", "l1", "d0", "da"}
EncOpener(o) ==
  IF o = "l" THEN <<B_l>>
  ELSE IF o = "l1" THEN <<B_l>> \o Enc(I_1)
  ELSE IF o = "d0" THEN <<B_d>> \o Enc(S_empty)
  ELSE <<B_d>> \o Enc(S_a)
RECURSIVE EncOpen(_)
EncOpen(os) == IF os = <<>> THEN <<>> ELSE EncOpener(Head(os)) \o EncOpen(Tail(os))
OpenSeqs == SeqsUpTo(Openers, MaxOpen) \ {<<>>}
OpenStreams == {EncOpen(os) : os \in OpenSeqs}

\* Dictionaries with a key written as a bare colon, no digit before it: alone,
\* after a well-formed entry, and before an entry with the key `0:`.
ColonVals == {I_1, S_le, L_nested}
ColonKeyStream(pre, v, post) ==
  <<B_d>> \o EncPairs(pre) \o <<B_COLON>> \o Enc(v) \o EncPairs(post) \o <<B_e>>
ColonPres == {<<>>, <<<<S_a, I_2>>>>}
ColonPosts == {<<>>, <<<<S_empty, I_2>>>>}
ColonKeyStreams ==
  {ColonKeyStream(pre, v, post) \o t :
     pre \in ColonPres, v \in ColonVals, post \in ColonPosts, t \in {<<>>, <<B_e>>}}

\* A recipe: the terms whose encodings are concatenated, then raw items.
Recipe(ts, tail) == [terms |-> ts, tail |-> tail]
Build(r) == EncAll(r.terms) \o r.tail
Recipes ==
  {Recipe(<<>>, s) : s \in ShortStreams \cup GrammarStreams \cup LeadStreams}
  \cup {Recipe(<<>>, s) : s \in BadKeyStreams \cup BadElemStreams \cup IoStreams}
  \cup {Recipe(<<>>, s) : s \in InvalidDigitStreams \cup OpenStreams \cup ColonKeyStreams}
  \cup {Recipe(<<t>>, s) : t \in IntTerms \cup StrTerms, s \in Tails}
  \cup {Recipe(ts, <<>>) : ts \in SeqsUpTo(TopTerms, MaxValues)}
  \cup {Recipe(<<t>>, s) : t \in ListTerms \cup DictTerms, s \in {<<>>, <<B_e>>}}

\* ------------------------------------------------------------------ the caller
\* A caller that decodes the concatenated top-level values of one byte source:
\* loop { match parse_value(&mut bytes) { EndOfFile => break, Ok, Err => return } }
VARIABLES
  recipe,   \* how the source's content was built
  input,    \* everything the byte source yields, from its start
  bytes,    \* what the byte source has yet to yield
  out,      \* the values returned so far, in order
  calls,    \* the number of parse_value calls that have returned
  last,     \* the outcome of the latest call: "none", "ok", "eof" or "err"
  err,      \* the error of the latest call, if it failed
  pc        \* "loop" while the caller keeps calling, "done" afterwards

vars == <<recipe, input, bytes, out, calls, last, err, pc>>

NoError == [kind |-> "", byte |-> NONE]

Init ==
  /\ recipe \in Recipes
  /\ input = Build(recipe)
  /\ bytes = input
  /\ out = <<>>
  /\ calls = 0
  /\ last = "none"
  /\ err = NoError
  /\ pc = "loop"

\* A caller whose byte source is not advanced by a call that returned a value.
ReturnedOk_source_not_advanced(r) ==
  /\ r.tag = "ok"
  /\ r.val # EndOfFile
  /\ out' = Append(out, r.val)
  /\ bytes' = bytes

\* Ok(val): the value is handed to the caller, which calls again.
ReturnedOk(r) ==
  /\ r.tag = "ok"
  /\ r.val # EndOfFile
  /\ out' = Append(out, r.val)
  /\ bytes' = r.c.src

ParseOk ==
  /\ pc = "loop"
  /\ ReturnedOk(parse_value(Cursor(bytes)))
  /\ calls' = calls + 1
  /\ last' = "ok"
  /\ UNCHANGED <<recipe, input, err, pc>>

\* Ok(BencodeValue::EndOfFile) => break
ReturnedEndOfFile(r) ==
  /\ r.tag = "ok"
  /\ r.val = EndOfFile
  /\ bytes' = r.c.src

ParseEndOfFile ==
  /\ pc = "loop"
  /\ ReturnedEndOfFile(parse_value(Cursor(bytes)))
  /\ calls' = calls + 1
  /\ last' = "eof"
  /\ pc' = "done"
  /\ UNCHANGED <<recipe, input, out, err>>

\* Err(err) => return 1
ReturnedErr(r) ==
  /\ r.tag = "err"
  /\ err' = r.val
  /\ bytes' = r.c.src

ParseErr ==
  /\ pc = "loop"
  /\ ReturnedErr(parse_value(Cursor(bytes)))
  /\ calls' = calls + 1
  /\ last' = "err"
  /\ pc' = "done"
  /\ UNCHANGED <<recipe, input, out>>

Next == ParseOk \/ ParseEndOfFile \/ ParseErr

Spec == Init /\ [][Next]_vars

\* The caller from its start: it opens the file, whose content is any of the
\* streams above, and then runs the loop.  A caller that has not returned takes
\* its next step: the file is opened, and while the loop runs (pc = "loop")
\* parse_value is called again.  The loop's step can be taken exactly while
\* pc = "loop" (parse_value returns Ok or Err on every source, and the three
\* actions cover both), so its weak fairness is written with that condition.
LiveInit ==
  /\ recipe = Recipe(<<>>, <<>>)
  /\ input = <<>>
  /\ bytes = <<>>
  /\ out = <<>>
  /\ calls = 0
  /\ last = "none"
  /\ err = NoError
  /\ pc = "open"

\* let f = File::open(&path); let mut bytes = BufReader::new(f).bytes();
Open ==
  /\ pc = "open"
  /\ recipe' \in Recipes
  /\ input' = Build(recipe')
  /\ bytes' = input'
  /\ pc' = "loop"
  /\ UNCHANGED <<out, calls, last, err>>

LiveNext == Open \/ ParseOk \/ ParseEndOfFile \/ ParseErr

LoopFairness == []<>(pc # "loop") \/ []<><<Next>>_vars

LiveSpec == LiveInit /\ [][LiveNext]_vars /\ WF_vars(Open) /\ LoopFairness

\* ------------------------------------------------------------------ vec_to_int alone
\* vec_to_int called on a digit vector directly, as the unit tests of the module
\* do: the vector is the digits of an integer term (leading zeros, then the
\* canonical digits of a magnitude; NoDigits with no leading zero is the empty
\* vector), the flag is the term's sign.  `input` is the vector, `out` receives
\* the i64 returned.
MaxVecInt == 120

VecMags ==
  TestMags
  \cup {MagOfSmall(n) : n \in 0 .. MaxVecInt}
  \cup {Mag(0, 123, 4567890), Mag(9223, 3720368, 5477580), Mag(9223, 3720368, 5477581),
        Mag(92233, 7203685, 4775799), Mag(92233, 7203685, 4775800),
        Mag(92233, 7203685, 4775810), Mag(92233, 7203686, 0), Mag(92234, 0, 0),
        Mag(922337, 2036854, 7758070), Mag(999999, Base - 1, Base - 1)}
VecTerms ==
  {IntTerm(neg, k, m) : neg \in BOOLEAN, k \in Pads, m \in VecMags \cup {NoDigits}}

VecInit ==
  /\ recipe \in {Recipe(<<t>>, <<>>) : t \in VecTerms}
  /\ input = IntDigits(recipe.terms[1])
  /\ bytes = input
  /\ out = <<>>
  /\ calls = 0
  /\ last = "none"
  /\ err = NoError
  /\ pc = "loop"

\* Ok(ret)
VecReturnedOk(r) ==
  /\ r # <<>>
  /\ out' = <<r[1]>>

VecToIntOk ==
  /\ pc = "loop"
  /\ VecReturnedOk(vec_to_int(input, recipe.terms[1][2]))
  /\ calls' = calls + 1
  /\ last' = "ok"
  /\ pc' = "done"
  /\ UNCHANGED <<recipe, input, bytes, err>>

\* Err("Integer field is longer i64") / Err("Integer field is larger than i64")
VecToIntErr ==
  /\ pc = "loop"
  /\ vec_to_int(input, recipe.terms[1][2]) = <<>>
  /\ calls' = calls + 1
  /\ last' = "err"
  /\ err' = [kind |-> "IntegerOverflow", byte |-> NONE]
  /\ pc' = "done"
  /\ UNCHANGED <<recipe, input, bytes, out>>

VecNext == VecToIntOk \/ VecToIntErr

VecSpec == VecInit /\ [][VecNext]_vars

\* ------------------------------------------------------------------ claims
\* The first term of the recipe, when there is one of the given kind.
FirstIs(kind) == recipe.terms # <<>> /\ recipe.terms[1][1] = kind
First == recipe.terms[1]
\* What follows the first term's encoding in the source.
AfterFirst == EncAll(Tail(recipe.terms)) \o recipe.tail

\* The stream Enc(t), decoded on its own by one parse_value call.
Alone(t) == parse_value(Cursor(Enc(t)))
DecodesAlone(t) == Alone(t).tag = "ok"
AloneValues(ts) == [j \in 1 .. Len(ts) |-> Alone(ts[j]).val]

\* The integer an integer term denotes.
IntOf(t) == I64(t[2], IF t[4] = NoDigits THEN MagZero ELSE t[4])

\* C1: for every n with 0 <= n <= 2^63-1 in canonical decimal, `i<n>e` decodes
\* to Integer(n), and for n > 0 `i-<n>e` decodes to Integer(-n); the 19-digit
\* boundary n = 2^63-1 included.
CanonicalInt(t) ==
  /\ t[3] = 0
  /\ t[4] # NoDigits
  /\ InI64(FALSE, t[4])
  /\ (t[2] => t[4] # MagZero)

C1_CanonicalIntegerDecodes ==
  (calls = 1 /\ FirstIs("int") /\ CanonicalInt(First))
    => (last = "ok" /\ out[1] = Integer(IntOf(First)))

\* C2: k accepted top-level values concatenated with no separator are returned
\* by k successive parse_value calls in input order, each call consuming exactly
\* the bytes of its value, and call k+1 returns EndOfFile.
C2_ConcatenatedValues ==
  (recipe.tail = <<>> /\ \A j \in 1 .. Len(recipe.terms) : DecodesAlone(recipe.terms[j]))
    => /\ calls <= Len(recipe.terms) + 1
       /\ calls <= Len(recipe.terms)
            => /\ pc = "loop"
               /\ out = SubSeq(AloneValues(recipe.terms), 1, calls)
               /\ bytes = EncAll(SubSeq(recipe.terms, calls + 1, Len(recipe.terms)))
       /\ calls = Len(recipe.terms) + 1
            => /\ pc = "done"
               /\ last = "eof"
               /\ out = AloneValues(recipe.terms)
               /\ bytes = <<>>

C2_Witness ==
  /\ pc = "done"
  /\ last = "eof"
  /\ calls = 3
  /\ recipe.terms = <<L_nested, D_a1>>
  /\ Len(out) = 2

\* C3: the decimal rendering of L (leading zeros allowed), a colon and any L
\* bytes b decode to the byte string b exactly, and exactly L bytes after the
\* colon are consumed.
C3_StringDecodesExactly ==
  (calls = 1 /\ FirstIs("str"))
    => /\ last = "ok"
       /\ out[1] = String(First[3])
       /\ Len(Payload(out[1])) = Len(First[3])
       /\ bytes = AfterFirst

C3_Witness ==
  /\ calls = 1
  /\ FirstIs("str")
  /\ First = StrTerm(1, <<B_e, 255>>)
  /\ recipe.tail = <<B_e>>
  /\ last = "ok"
  /\ bytes = <<B_e>>

\* C4: every non-empty proper prefix of a stream that decodes to a single value
\* makes parse_value fail: it returns neither a value nor EndOfFile.
ProperPrefixes(w) == {SubSeq(w, 1, j) : j \in 1 .. Len(w) - 1}

C4_TruncationFails ==
  (calls = 1 /\ last = "ok" /\ bytes = <<>>)
    => \A p \in ProperPrefixes(input) : parse_value(Cursor(p)).tag = "err"

C4_Witness ==
  /\ calls = 1
  /\ last = "ok"
  /\ bytes = <<>>
  /\ recipe.terms = <<D_nested>>
  /\ Len(input) = 17

\* C5: `de` decodes to an empty Dictionary, both bytes consumed, and so does an
\* empty dictionary that is a list element or a dictionary value.
C5_EmptyDictionaryDecodes ==
  /\ (calls = 1 /\ recipe.terms = <<D_empty>>)
       => (last = "ok" /\ out[1] = Dictionary(EmptyMap) /\ bytes = recipe.tail)
  /\ (calls = 1 /\ recipe.terms = <<ListTerm(<<D_empty>>)>>)
       => (last = "ok" /\ out[1] = List(<<Dictionary(EmptyMap)>>))
  /\ (calls = 1 /\ recipe.terms = <<DictTerm(<<<<S_a, D_empty>>>>)>>)
       => (last = "ok" /\ out[1] = Dictionary(insert(EmptyMap, <<97>>, Dictionary(EmptyMap))))

\* C6: the outcome of parse_value is selected by the first byte alone: no byte
\* gives EndOfFile, a digit the string parser's result as String, `d` the
\* dictionary parser's, `i` the integer parser's, `l` the list parser's, and any
\* other byte fails with InvalidLeadByte carrying that byte.
SameOutcome(r, variant) ==
  IF r.tag = "ok"
  THEN last = "ok" /\ out[1] = <<variant, r.val>> /\ bytes = r.c.src
  ELSE last = "err" /\ err = r.val

C6_DispatchByLeadByte ==
  (calls = 1 /\ (input = <<>> \/ Head(input) # IOERR))
    => IF input = <<>> THEN last = "eof" /\ out = <<>>
       ELSE IF IsDigit(Head(input)) THEN SameOutcome(parse_string(Cursor(input)), "String")
       ELSE IF Head(input) = B_d THEN SameOutcome(parse_dict(Cursor(input)), "Dictionary")
       ELSE IF Head(input) = B_i THEN SameOutcome(parse_int(Cursor(input)), "Integer")
       ELSE IF Head(input) = B_l THEN SameOutcome(parse_list(Cursor(input)), "List")
       ELSE last = "err" /\ err = [kind |-> "InvalidLeadByte", byte |-> Head(input)]

C6_Witness ==
  /\ calls = 1
  /\ input = <<B_0, B_COLON, B_e>>
  /\ last = "ok"
  /\ out = <<String(<<>>)>>
  /\ bytes = <<B_e>>

\* C7: when parse_value fails with InvalidLeadByte no delegate ran and the cursor
\* is not advanced: the offending byte is still the next byte of the source.
C7_InvalidLeadByteNotConsumed ==
  (calls = 1 /\ last = "err" /\ err.kind = "InvalidLeadByte"
     /\ lead(Head(input)) = "Unexpected")
    => bytes = input

\* C8 (as claimed): prepending any number of `0` digits to an integer's digits
\* does not change the decoded result, and `ie`, `i-e`, `i0e`, `i-0e` decode to 0.
Unpadded(t) == IntTerm(t[2], 0, t[4])

C8_LeadingZerosAnyNumber ==
  (calls = 1 /\ FirstIs("int") /\ DecodesAlone(Unpadded(First)))
    => (last = "ok" /\ out[1] = Alone(Unpadded(First)).val /\ out[1] = Integer(IntOf(First)))

\* C8 (amended): prepending `0` digits does not change the decoded result as long
\* as the padded digit sequence has at most 18 digits, and `ie`, `i-e`, `i0e`,
\* `i-0e` decode to 0.
C8_LeadingZerosBelowCap ==
  (calls = 1 /\ FirstIs("int") /\ Len(IntDigits(First)) <= 18)
    => /\ last = "ok"
       /\ out[1] = Integer(IntOf(First))
       /\ out[1] = Alone(Unpadded(First)).val
       /\ (First[4] \in {NoDigits, MagZero} => out[1] = Integer(I64Zero))

C8_Witness ==
  /\ calls = 1
  /\ FirstIs("int")
  /\ First = IntTerm(TRUE, 17, MagOfSmall(1))
  /\ last = "ok"
  /\ out[1] = Integer(I64(TRUE, MagOfSmall(1)))

\* C9: `le` decodes to the empty List, and `l` enc(v1) .. enc(vn) `e` decodes to
\* the List of the n decoded values in input order, whatever their types.
C9_ListDecodesInOrder ==
  (calls = 1 /\ FirstIs("list") /\ \A j \in 1 .. Len(First[2]) : DecodesAlone(First[2][j]))
    => /\ last = "ok"
       /\ out[1] = List(AloneValues(First[2]))
       /\ Len(Payload(out[1])) = Len(First[2])
       /\ bytes = AfterFirst

C9_Witness ==
  /\ calls = 1
  /\ FirstIs("list")
  /\ First = ListTerm(<<L_nested, S_le>>)
  /\ last = "ok"
  /\ out[1] = List(<<List(<<List(<<>>), Integer(I64(FALSE, MagOfSmall(1)))>>), String(<<B_l, B_e>>)>>)

\* C10: a dictionary of n >= 1 (key, value) pairs decodes to the Dictionary
\* whose keys are the distinct key byte strings, each mapped to the value of its
\* last occurrence in the input.
KeyOf(pair) == pair[1][3]
LastOf(pairs, j) == \A h \in j + 1 .. Len(pairs) : KeyOf(pairs[h]) # KeyOf(pairs[j])

C10_DictionaryLastWins ==
  (calls = 1 /\ FirstIs("dict") /\ First[2] # <<>>
     /\ \A j \in 1 .. Len(First[2]) : DecodesAlone(First[2][j][2]))
    => /\ last = "ok"
       /\ Variant(out[1]) = "Dictionary"
       /\ DOMAIN Payload(out[1]) = {KeyOf(First[2][j]) : j \in 1 .. Len(First[2])}
       /\ \A j \in 1 .. Len(First[2]) :
            LastOf(First[2], j)
              => Payload(out[1])[KeyOf(First[2][j])] = Alone(First[2][j][2]).val
       /\ bytes = AfterFirst

C10_Witness ==
  /\ calls = 1
  /\ FirstIs("dict")
  /\ First = DictTerm(<<<<S_a, I_1>>, <<S_a, I_2>>>>)
  /\ last = "ok"
  /\ out[1] = Dictionary(insert(EmptyMap, <<97>>, Integer(I64(FALSE, MagOfSmall(2)))))

\* C11: a dictionary key is decoded by the string parser: when the byte at a key
\* position is `i`, `l` or `d` the dictionary fails (the string parser's
\* InvalidLengthPrefix carrying that byte), and the keys of a decoded Dictionary
\* are the byte strings the string parser returns at the key positions.
KeyStartsValue(b) == b \in {B_i, B_l, B_d}
\* Each such dictionary with the first byte of its misplaced key.
BadKeyCases == {<<BadKeyStream(pre, k), Head(Enc(k))>> : pre \in BadKeyPres, k \in BadKeys}

C11_KeysByStringParser ==
  /\ (calls = 1 /\ Len(input) >= 2 /\ input[1] = B_d /\ KeyStartsValue(input[2]))
       => (last = "err" /\ err = [kind |-> "InvalidLengthPrefix", byte |-> input[2]])
  /\ (calls = 1 /\ input \in BadKeyStreams)
       => \A case \in BadKeyCases :
            input = case[1]
              => (last = "err" /\ err = [kind |-> "InvalidLengthPrefix", byte |-> case[2]])
  /\ (calls = 1 /\ last = "ok" /\ Variant(out[1]) = "Dictionary")
       => /\ parse_string(Cursor(Tail(input))).tag = "ok"
          /\ parse_string(Cursor(Tail(input))).val \in DOMAIN Payload(out[1])
  /\ (calls = 1 /\ last = "ok" /\ FirstIs("dict"))
       => DOMAIN Payload(out[1])
            = {parse_string(Cursor(Enc(First[2][j][1]))).val : j \in 1 .. Len(First[2])}

C11_Witness ==
  /\ calls = 1
  /\ input = BadKeyStream(<<<<S_a, I_1>>>>, L_empty)
  /\ last = "err"
  /\ err = [kind |-> "InvalidLengthPrefix", byte |-> B_l]

\* C12: an error of a nested sub-parse, at any depth, is the error of the
\* top-level parse_value call: the call returns that error and no value, never a
\* List or Dictionary without the failing element.
\* Each container with a malformed element and what the element yields alone.
BadElemCases ==
  {<<InPlace(place, b), parse_value(Cursor(b))>> : place \in Places, b \in BadElems}

C12_NestedErrorIsTerminal ==
  /\ (calls = 1 /\ input \in BadElemStreams)
       => \A case \in BadElemCases :
            input = case[1]
              => /\ case[2].tag = "err"
                 /\ last = "err"
                 /\ err = case[2].val
                 /\ out = <<>>
  /\ (calls = 1 /\ Len(input) >= 2 /\ input[1] = B_l /\ input[2] # B_e
        /\ parse_value(Cursor(Tail(input))).tag = "err")
       => (last = "err" /\ err = parse_value(Cursor(Tail(input))).val)
  /\ (calls = 1 /\ input # <<>> /\ input[1] = B_d
        /\ parse_string(Cursor(Tail(input))).tag = "ok"
        /\ parse_value(parse_string(Cursor(Tail(input))).c).tag = "err")
       => (last = "err" /\ err = parse_value(parse_string(Cursor(Tail(input))).c).val)

C12_Witness ==
  /\ calls = 1
  /\ input = InPlace("depth three", <<B_i, B_0 + 1, 120, B_e>>)
  /\ last = "err"
  /\ err = [kind |-> "InvalidDigit", byte |-> 120]
  /\ out = <<>>

\* C13: when the byte source yields an I/O failure at a position a parse_value
\* call reads or peeks (lead byte, length prefix, string body, integer digits,
\* the look-ahead after a list element or dictionary entry, the empty-list
\* check), that call returns an error (the source read error), never a value
\* and never EndOfFile.
Consumed == SubSeq(input, 1, Len(input) - Len(bytes))
HasIoErr(s) == \E j \in 1 .. Len(s) : s[j] = IOERR

C13_IoFailureIsError ==
  /\ (calls = 1 /\ HasIoErr(Consumed))
       => (last = "err" /\ err.kind = "SourceReadError" /\ out = <<>>)
  /\ (calls = 1 /\ input \in IoStreams)
       => /\ last = "err"
          /\ err.kind = "SourceReadError"
          /\ out = <<>>
          /\ Consumed[Len(Consumed)] = IOERR
          /\ ~HasIoErr(bytes)

C13_Witness ==
  /\ calls = 1
  /\ input = IoAt(Enc(ListTerm(<<I_1, I_2>>)), 5)
  /\ last = "err"
  /\ err.kind = "SourceReadError"
  /\ Len(bytes) = 3

\* C14: the digit buffer of the integer parser is capped at 19 entries and only
\* exceeding the cap is rejected: at most 19 digits followed by `e` are handed to
\* the numeric accumulator (whose result, a value or IntegerOverflow, is the
\* outcome), and 20 or more digits fail with IntegerTooLarge.
HandedToAccumulator(t) ==
  IF vec_to_int(IntDigits(t), t[2]) = <<>>
  THEN last = "err" /\ err.kind = "IntegerOverflow"
  ELSE last = "ok" /\ out[1] = Integer(vec_to_int(IntDigits(t), t[2])[1])

C14_CapRejectsOnlyExcess ==
  (calls = 1 /\ FirstIs("int"))
    => IF Len(IntDigits(First)) <= 19 THEN HandedToAccumulator(First)
       ELSE last = "err" /\ err.kind = "IntegerTooLarge"

\* C15: vec_to_int(ds, neg) on a sequence of ASCII digits returns the exact
\* decimal value of ds, negated when neg is set, whenever that value lies in
\* [-2^63, 2^63-1], and fails with the overflow error exactly when it does not.
\* 9223372036854775807 (positive) and 9223372036854775808 (negative) succeed,
\* 9223372036854775808 (positive) and 9223372036854775809 (negative) fail, and the
\* empty sequence yields 0 for either sign.
Limit(neg) == <<92233, 7203685, IF neg THEN 4775808 ELSE 4775807>>
Fits(neg, m) ==
  \/ m[1] < Limit(neg)[1]
  \/ m[1] = Limit(neg)[1] /\ m[2] < Limit(neg)[2]
  \/ m[1] = Limit(neg)[1] /\ m[2] = Limit(neg)[2] /\ m[3] <= Limit(neg)[3]
ValueOf(t) == IF t[4] = NoDigits THEN <<0, 0, 0>> ELSE t[4]
Vec == recipe.terms[1]

C15_VecToIntExact ==
  calls = 1
    => /\ IF Fits(Vec[2], ValueOf(Vec))
          THEN /\ last = "ok"
               /\ out[1].mag = ValueOf(Vec)
               /\ out[1].neg = (Vec[2] /\ ValueOf(Vec) # <<0, 0, 0>>)
          ELSE last = "err" /\ err.kind = "IntegerOverflow" /\ out = <<>>
       /\ Vec \in {IntTerm(FALSE, 0, I64MaxMag), IntTerm(TRUE, 0, I64MinMag)} => last = "ok"
       /\ Vec \in {IntTerm(FALSE, 0, I64MinMag), IntTerm(TRUE, 0, Mag(92233, 7203685, 4775809))}
            => last = "err"
       /\ input = <<>> => (last = "ok" /\ out = <<I64Zero>>)

C15_Witness ==
  /\ calls = 1
  /\ Vec = IntTerm(TRUE, 0, I64MinMag)
  /\ Len(input) = 19
  /\ last = "ok"
  /\ out = <<[neg |-> TRUE, mag |-> <<92233, 7203685, 4775808>>]>>

\* C16: in the integer parser a byte in a digit position (after `i` or `i-`,
\* before the terminating `e`) that is neither an ASCII digit nor `e` makes the
\* parse fail with InvalidDigit carrying that byte: a second `i`, a letter
\* between digits, a `-` anywhere but right after the leading `i`.
\* What follows `i` and the optional sign, the digits it starts with, and the
\* byte right after them.
IntBody(s) == IF Len(s) >= 2 /\ s[2] = B_MINUS THEN SubSeq(s, 3, Len(s)) ELSE Tail(s)
DigitRun(s) ==
  CHOOSE k \in 0 .. Len(s) :
    /\ \A j \in 1 .. k : IsDigit(s[j])
    /\ (k = Len(s) \/ ~IsDigit(s[k + 1]))
HasOffender(s) ==
  /\ DigitRun(IntBody(s)) < Len(IntBody(s))
  /\ IntBody(s)[DigitRun(IntBody(s)) + 1] \in Bytes \ {B_e}
Offender(s) == IntBody(s)[DigitRun(IntBody(s)) + 1]

C16_NonDigitIsInvalidDigit ==
  (calls = 1 /\ input # <<>> /\ input[1] = B_i /\ HasOffender(input))
    => (last = "err" /\ err = [kind |-> "InvalidDigit", byte |-> Offender(input)])

\* C17: no value parse_value returns holds the EndOfFile sentinel as a list
\* element or a dictionary value at any depth: when the source ends where an
\* element or a value is due, the enclosing parser fails with UnterminatedList /
\* UnterminatedDictionary instead of returning the container.
RECURSIVE HasEndOfFile(_)
HasEndOfFile(v) ==
  IF Variant(v) = "EndOfFile" THEN TRUE
  ELSE IF Variant(v) = "List"
    THEN \E j \in 1 .. Len(Payload(v)) : HasEndOfFile(Payload(v)[j])
  ELSE IF Variant(v) = "Dictionary"
    THEN \E k \in DOMAIN Payload(v) : HasEndOfFile(Payload(v)[k])
  ELSE FALSE

Innermost(os) == os[Len(os)]
\* Each source that ends inside containers with the innermost one's opener.
OpenCases == {<<EncOpen(os), Innermost(os)>> : os \in OpenSeqs}

C17_NoEndOfFileInside ==
  /\ \A j \in 1 .. Len(out) : ~HasEndOfFile(out[j])
  /\ (calls = 1 /\ input \in OpenStreams)
       => \A case \in OpenCases :
            input = case[1]
              => /\ last = "err"
                 /\ out = <<>>
                 /\ err.kind = IF case[2] \in {"l", "l1"} THEN "UnterminatedList"
                                ELSE "UnterminatedDictionary"

C17_Witness ==
  /\ calls = 1
  /\ input = EncOpen(<<"da", "l", "d0">>)
  /\ parse_value(Cursor(<<>>)).val = EndOfFile
  /\ last = "err"
  /\ err.kind = "UnterminatedDictionary"
  /\ bytes = <<>>

\* C18: the string parser asks for no digit in the length prefix: where the next
\* byte is `:` (a dictionary key position; the dispatcher rejects a leading `:`)
\* it consumes the colon alone and returns the empty byte string, so `d:i1ee`
\* decodes to the Dictionary that maps the empty key to Integer(1).
\* Each such dictionary, the map it stands for (an entry after the bare colon
\* has the empty key again and overwrites it) and what follows it in the source.
ColonKeyMap(pre, v, post) ==
  insert(IF pre = <<>> THEN EmptyMap ELSE insert(EmptyMap, <<97>>, Alone(I_2).val),
         <<>>, IF post = <<>> THEN Alone(v).val ELSE Alone(I_2).val)
ColonKeyCases ==
  {<<ColonKeyStream(pre, v, post) \o t, ColonKeyMap(pre, v, post), t>> :
     pre \in ColonPres, v \in ColonVals, post \in ColonPosts, t \in {<<>>, <<B_e>>}}

C18_ColonAloneIsEmptyKey ==
  /\ (calls = 1 /\ Len(input) >= 2 /\ input[1] = B_d /\ input[2] = B_COLON)
       => /\ parse_string(Cursor(Tail(input))).tag = "ok"
          /\ parse_string(Cursor(Tail(input))).val = <<>>
          /\ parse_string(Cursor(Tail(input))).c.src = Tail(Tail(input))
          /\ last = "ok" => <<>> \in DOMAIN Payload(out[1])
  /\ (calls = 1 /\ input # <<>> /\ input[1] = B_COLON)
       => (last = "err" /\ err = [kind |-> "InvalidLeadByte", byte |-> B_COLON])
  /\ (calls = 1 /\ input \in ColonKeyStreams)
       => \A case \in ColonKeyCases :
            input = case[1]
              => /\ last = "ok"
                 /\ out[1] = Dictionary(case[2])
                 /\ bytes = case[3]

C18_Witness ==
  /\ calls = 1
  /\ input = <<B_d, B_COLON, B_i, B_0 + 1, B_e, B_e>>
  /\ last = "ok"
  /\ out = <<Dictionary(insert(EmptyMap, <<>>, Integer(I64(FALSE, MagOfSmall(1)))))>>
  /\ bytes = <<>>

\* C19: every parse_value call on a finite source returns (a value, EndOfFile
\* or an error) and the caller's loop ends: a call takes its bytes from the front
\* of what the source has left and never more than that, a call that returns a
\* value has consumed at least one byte, EndOfFile is returned only by a call
\* that found the source empty, and the number of container parsers active at
\* once (the recursion depth) never exceeds the number of `l` / `d` bytes the
\* call consumed.
OpenersIn(s) == Cardinality({j \in 1 .. Len(s) : s[j] \in {B_l, B_d}})
RecursionDepth(c) == c.depth \div 2
Taken == SubSeq(bytes, 1, Len(bytes) - Len(bytes'))

C19_Call ==
  calls' = calls + 1
    => /\ Len(bytes') <= Len(bytes)
       /\ bytes = Taken \o bytes'
       /\ last' \in {"ok", "eof", "err"}
       /\ last' = "ok" => Len(bytes') < Len(bytes)
       /\ last' = "eof" => bytes = <<>>
       /\ RecursionDepth(parse_value(Cursor(bytes)).c) <= OpenersIn(Taken)
       /\ parse_value(Cursor(bytes)).c.bufs = <<>>

CallReturns == pc = "loop" => parse_value(Cursor(bytes)).tag \in {"ok", "err"}

C19_Terminates == []CallReturns /\ [][C19_Call]_vars /\ <>(pc = "done")

C19_Witness ==
  /\ pc = "done"
  /\ calls = 2
  /\ last = "eof"
  /\ recipe.terms = <<D_nested>>
  /\ parse_value(Cursor(input)).c.depth = 5
  /\ OpenersIn(input) = 3
  /\ bytes = <<>>

====
